---- MODULE Spec2Model ----
(***************************************************************************)
(* pysec2vuxml: reconciliation of PYSEC advisories for Python ports with   *)
(* the FreeBSD VuXML database.  The module models                          *)
(*   - print_vulnerabilities (per-advisory classification, CVE gathering,  *)
(*     VuXML cross-reference and skeleton synthesis)       -> Spec         *)
(*   - get_cve_publication_date (cache-or-fetch date lookup) -> SpecCve    *)
(*   - print_table_of_contents (summary table and totals)  -> SpecToc      *)
(***************************************************************************)
EXTENDS Integers, Sequences, FiniteSets, TLC

----------------------------------------------------------------------------
(* Bounds of the model                                                     *)

MaxAliases == 1        \* longest alias list of an advisory
MaxFixedIn == 2        \* longest fixed_in list of an advisory
NumVids == 1           \* records in the VuXML database
MaxRequests == 2       \* most requests to the web service for one CVE
MaxVulns == 2          \* most advisories of one (package, version) entry

----------------------------------------------------------------------------
(* Generic helpers (Python list semantics)                                 *)

None == "None"

SeqsUpTo(S, n) == UNION {[1..k -> S] : k \in 0..n}

NoDuplicates(list) == \A j, k \in DOMAIN list : list[j] = list[k] => j = k

\* the elements of list at the given indexes, in the order of list
RECURSIVE Select(_, _)
Select(list, indexes) ==
    IF list = <<>> THEN <<>>
    ELSE Select(SubSeq(list, 1, Len(list) - 1), indexes)
         \o (IF Len(list) \in indexes THEN <<list[Len(list)]>> ELSE <<>>)

Sublists(list) == {Select(list, indexes) : indexes \in SUBSET DOMAIN list}

InList(x, list) == \E k \in DOMAIN list : list[k] = x

\* str.startswith
StartsWith(s, prefix) ==
    Len(s) >= Len(prefix) /\ SubSeq(s, 1, Len(prefix)) = prefix

FirstIndex(x, list) == CHOOSE k \in DOMAIN list :
    list[k] = x /\ \A j \in 1..(k - 1) : list[j] # x

\* variant: list.pop(), which drops the last element whatever x is
ListRemove_Pop(list, x) == SubSeq(list, 1, Len(list) - 1)

\* list.remove(x): drops the first occurrence of x (the callers test
\* membership first)
ListRemove(list, x) ==
    LET k == FirstIndex(x, list)
    IN  SubSeq(list, 1, k - 1) \o SubSeq(list, k + 1, Len(list))

----------------------------------------------------------------------------
(* Input universes                                                         *)

Cves == {"CVE-1", "CVE-2"}
Ids == Cves \cup {"PYSEC-1"}
Link == "https://osv.dev/PYSEC-1"
FixVersions == << <<"2", ".", "1">>, <<"2", ".", "2">>, <<"2", ".", "3">>,
                 <<"2", ".", "4">> >>
FixedInLists == {SubSeq(FixVersions, 1, k) : k \in 0..MaxFixedIn}

\* an advisory as returned by pipinfo.get_packages_vulnerabilities
Advisories ==
    [id : Ids, aliases : SeqsUpTo(Ids, MaxAliases),
     withdrawn : {None, "2022-01-01"}, fixed_in : FixedInLists,
     link : {Link}]

\* the non-comment lines of ignore.txt / reported.txt
IdLists == SUBSET Ids

NoAdvisory ==
    [id |-> None, aliases |-> <<>>, withdrawn |-> None, fixed_in |-> <<>>,
     link |-> ""]

----------------------------------------------------------------------------
(* The ports inventory (python_ports) and the regular expressions that     *)
(* split a versioned port name.  A versioned name is a sequence of         *)
(* characters.                                                             *)

VersionChars ==
    {"0", "1", "2", "3", "4", "5", "6", "7", "8", "9",
     "p", "g", ".", "+", ",", "_"}

\* start of the leftmost match of  -[0-9pg.+,_]*$  in vname, 0 if none
VersionSuffixStart(vname) ==
    LET starts == {i \in DOMAIN vname :
                     /\ vname[i] = "-"
                     /\ \A j \in (i + 1)..Len(vname) : vname[j] \in VersionChars}
    IN  IF starts = {} THEN 0
        ELSE CHOOSE i \in starts : \A j \in starts : i <= j

\* port_name = re.sub(r"-[0-9pg.+,_]*$", "", port_vname)
PortName(vname) ==
    IF VersionSuffixStart(vname) = 0 THEN vname
    ELSE SubSeq(vname, 1, VersionSuffixStart(vname) - 1)

\* port_version = re.sub(r"^" + port_name + "-", "", port_vname)
\* (the characters of the names used here are literal in a pattern)
PortVersion(vname) ==
    LET prefix == PortName(vname) \o <<"-">>
    IN  IF StartsWith(vname, prefix)
        THEN SubSeq(vname, Len(prefix) + 1, Len(vname))
        ELSE vname

\* py39-ren-1.0_1: package ren 1.0, port revision 1
\* py39-pg-2.1,1 : package pg 2.1, port epoch 1
\* py39-pg20-2.0 : package pg 2.0, a second port with the same PORTNAME
python_ports ==
    << [vname |-> <<"p", "y", "3", "9", "-", "r", "e", "n", "-",
                    "1", ".", "0", "_", "1">>,
        dir |-> "devel/py-ren", name |-> "ren", version |-> "1.0",
        maintainer |-> "a@FreeBSD.org"],
       [vname |-> <<"p", "y", "3", "9", "-", "p", "g", "-",
                    "2", ".", "1", ",", "1">>,
        dir |-> "databases/py-pg", name |-> "pg", version |-> "2.1",
        maintainer |-> "b@FreeBSD.org"],
       [vname |-> <<"p", "y", "3", "9", "-", "p", "g", "2", "0", "-",
                    "2", ".", "0">>,
        dir |-> "databases/py-pg20", name |-> "pg", version |-> "2.0",
        maintainer |-> "b@FreeBSD.org"] >>

\* the port search loop shared by print_table_of_contents and
\* print_vulnerabilities: the first port with that name and version
MatchingPorts(package_name, package_version) ==
    {k \in DOMAIN python_ports :
        /\ python_ports[k].name = package_name
        /\ python_ports[k].version = package_version}

PortFound(package_name, package_version) ==
    MatchingPorts(package_name, package_version) # {}

FindPort(package_name, package_version) ==
    LET ks == MatchingPorts(package_name, package_version)
        k == CHOOSE i \in ks : \A j \in ks : i <= j
    IN  [vname |-> python_ports[k].vname,
         name |-> PortName(python_ports[k].vname),
         version |-> PortVersion(python_ports[k].vname),
         subdir |-> python_ports[k].dir,
         maintainer |-> python_ports[k].maintainer]

NoPort == [vname |-> <<>>, name |-> <<>>, version |-> <<>>,
           subdir |-> "", maintainer |-> ""]

----------------------------------------------------------------------------
(* Classification of one advisory                                          *)

\* the ignore_vuln / reported_vuln flag: the id or any alias is listed
Listed(vulnerability, ids) ==
    \/ vulnerability.id \in ids
    \/ \E k \in DOMAIN vulnerability.aliases : vulnerability.aliases[k] \in ids

\* variant: the reported list is consulted before the withdrawal
Disposition_ReportedFirst(vulnerability, ignored, reported) ==
    IF Listed(vulnerability, ignored) THEN "Ignored"
    ELSE IF Listed(vulnerability, reported) THEN "Reported"
    ELSE IF vulnerability.withdrawn # None THEN "Withdrawn"
    ELSE "Unreported"

\* variant: the withdrawal is tested before the ignore list
Disposition_WithdrawnFirst(vulnerability, ignored, reported) ==
    IF vulnerability.withdrawn # None THEN "Withdrawn"
    ELSE IF Listed(vulnerability, ignored) THEN "Ignored"
    ELSE IF Listed(vulnerability, reported) THEN "Reported"
    ELSE "Unreported"

\* the order of the tests in the loop body of print_vulnerabilities
Disposition(vulnerability, ignored, reported) ==
    IF Listed(vulnerability, ignored) THEN "Ignored"
    ELSE IF vulnerability.withdrawn # None THEN "Withdrawn"
    ELSE IF Listed(vulnerability, reported) THEN "Reported"
    ELSE "Unreported"

----------------------------------------------------------------------------
(* Gathering the related CVEs                                              *)

\* variant: an alias is appended without looking for it in cve_list
RECURSIVE GatherAliases_NoLookup(_, _)
GatherAliases_NoLookup(aliases, acc) ==
    IF aliases = <<>> THEN acc
    ELSE LET alias == Head(aliases)
         IN  GatherAliases_NoLookup(Tail(aliases),
                IF StartsWith(alias, "CVE")
                THEN [cve_list |-> Append(acc.cve_list, alias),
                      no_cve |-> FALSE]
                ELSE acc)

RECURSIVE GatherAliases(_, _)
GatherAliases(aliases, acc) ==
    IF aliases = <<>> THEN acc
    ELSE LET alias == Head(aliases)
         IN  GatherAliases(Tail(aliases),
                IF StartsWith(alias, "CVE") /\ ~InList(alias, acc.cve_list)
                THEN [cve_list |-> Append(acc.cve_list, alias),
                      no_cve |-> FALSE]
                ELSE acc)

GatherCves(vulnerability) ==
    GatherAliases(vulnerability.aliases,
        IF StartsWith(vulnerability.id, "CVE")
        THEN [cve_list |-> <<vulnerability.id>>, no_cve |-> FALSE]
        ELSE [cve_list |-> <<>>, no_cve |-> TRUE])

----------------------------------------------------------------------------
(* The VuXML database (vuxml_data) and the searches of the vuxml library   *)

Vids == 1..NumVids

\* a reference is a dictionary with one item, <<key, value>>
References ==
    << <<"cvename", "CVE-1">>, <<"cvename", "CVE-2">>, <<"url", Link>> >>

\* a record carries some of the references, or has no 'references' key
Records ==
    {[topic |-> "t"]}
    \cup [topic : {"t"}, references : Sublists(References)]

Databases == [Vids -> Records]

\* results a search by package may return: some of the records, in any
\* order
PackageResults == {vulns \in SeqsUpTo(Vids, NumVids) : NoDuplicates(vulns)}

RECURSIVE MatchingReferences(_, _, _)
MatchingReferences(references, source, identifier) ==
    IF references = <<>> THEN 0
    ELSE (IF Head(references) = <<source, identifier>> THEN 1 ELSE 0)
         + MatchingReferences(Tail(references), source, identifier)

Repeat(x, n) == [k \in 1..n |-> x]

\* vuxml.search_vulns_by_reference as the callers use it: the ids of the
\* records that carry the reference, in database order, once per matching
\* reference
RECURSIVE SearchFrom(_, _, _, _)
SearchFrom(vuxml_data, vid, source, identifier) ==
    IF vid > NumVids THEN <<>>
    ELSE (IF "references" \in DOMAIN vuxml_data[vid]
          THEN Repeat(vid, MatchingReferences(vuxml_data[vid].references,
                                              source, identifier))
          ELSE <<>>)
         \o SearchFrom(vuxml_data, vid + 1, source, identifier)

search_vulns_by_reference(vuxml_data, source, identifier) ==
    SearchFrom(vuxml_data, 1, source, identifier)

----------------------------------------------------------------------------
(* Cross-reference of one advisory with the database.  A resolver state    *)
(* is cve_list, the record ids printed (vids) and, for each print, the     *)
(* CVE that was matched (cves).                                            *)

\* variant: every record found is printed, without looking for it in
\* vid_list
RECURSIVE PrintNew_NoLookup(_, _)
PrintNew_NoLookup(vulns, vid_list) ==
    IF vulns = <<>> THEN vid_list
    ELSE PrintNew_NoLookup(Tail(vulns), Append(vid_list, Head(vulns)))

\* for vid in vulns: if vid not in vid_list: print_vuln; vid_list.append(vid)
RECURSIVE PrintNew(_, _)
PrintNew(vulns, vid_list) ==
    IF vulns = <<>> THEN vid_list
    ELSE PrintNew(Tail(vulns),
            IF InList(Head(vulns), vid_list) THEN vid_list
            ELSE Append(vid_list, Head(vulns)))

\* the cvename references of one record against cve_list
RECURSIVE ScanReferences(_, _, _)
ScanReferences(references, vid, st) ==
    IF references = <<>> THEN st
    ELSE LET key == Head(references)[1]
             value == Head(references)[2]
         IN  ScanReferences(Tail(references), vid,
                IF key = "cvename" /\ InList(value, st.cve_list)
                THEN [cve_list |-> ListRemove(st.cve_list, value),
                      vids |-> Append(st.vids, vid),
                      cves |-> Append(st.cves, value)]
                ELSE st)

\* one pass over the records returned by a search by package
RECURSIVE ScanVulns(_, _, _)
ScanVulns(vulns, vuxml_data, st) ==
    IF vulns = <<>> THEN st
    ELSE ScanVulns(Tail(vulns), vuxml_data,
            IF "references" \in DOMAIN vuxml_data[Head(vulns)]
            THEN ScanReferences(vuxml_data[Head(vulns)].references,
                                Head(vulns), st)
            ELSE st)

\* THIS port, no CVE: the records that mention the advisory link
ThisPortByUrl(vuxml_data, link) ==
    PrintNew(search_vulns_by_reference(vuxml_data, "url", link), <<>>)

\* THIS port, CVE path: the exact version, then any version if CVEs remain
ThisPortByCve(vuxml_data, exact, any, cves) ==
    LET st == ScanVulns(exact, vuxml_data,
                        [cve_list |-> cves, vids |-> <<>>, cves |-> <<>>])
    IN  IF Len(st.cve_list) > 0 THEN ScanVulns(any, vuxml_data, st) ELSE st

\* ANOTHER port: the records found for each remaining CVE
RECURSIVE OtherPort(_, _, _)
OtherPort(vuxml_data, cves, vid_list) ==
    IF cves = <<>> THEN vid_list
    ELSE OtherPort(vuxml_data, Tail(cves),
            PrintNew(search_vulns_by_reference(vuxml_data, "cvename",
                                               Head(cves)), vid_list))

----------------------------------------------------------------------------
(* The date lookup: get_cve_publication_date                               *)

Digits == <<"0", "1", "2", "3", "4", "5", "6", "7", "8", "9">>

Char(s, k) == SubSeq(s, k, k)

IsDigit(c) == \E d \in DOMAIN Digits : Digits[d] = c

DigitValue(c) == (CHOOSE d \in DOMAIN Digits : Digits[d] = c) - 1

RECURSIVE Number(_, _, _)
Number(s, from, to) ==
    IF to < from THEN 0
    ELSE 10 * Number(s, from, to - 1) + DigitValue(Char(s, to))

\* publication_date = re.sub(r"T.*$", "", datePublished)
StripTime(s) ==
    LET ts == {k \in 1..Len(s) : Char(s, k) = "T"}
    IN  IF ts = {} THEN s
        ELSE SubSeq(s, 1, (CHOOSE k \in ts : \A j \in ts : k <= j) - 1)

\* datetime.datetime.strptime(s, "%Y-%m-%d") accepts s (dates are written
\* YYYY-MM-DD by the web service); it raises ValueError otherwise
IsDate(s) ==
    /\ Len(s) = 10
    /\ Char(s, 5) = "-" /\ Char(s, 8) = "-"
    /\ \A k \in {1, 2, 3, 4, 6, 7, 9, 10} : IsDigit(Char(s, k))

strptime(s) == <<Number(s, 1, 4), Number(s, 6, 7), Number(s, 9, 10)>>

\* datetime <
Earlier(a, b) ==
    \/ a[1] < b[1]
    \/ a[1] = b[1] /\ a[2] < b[2]
    \/ a[1] = b[1] /\ a[2] = b[2] /\ a[3] < b[3]

Date1 == "2021-05-01"
Date2 == "2020-11-02"
Dates == {Date1, Date2}

\* JSON documents of the CVE web service
Documents ==
    {[cveMetadata |-> [datePublished |-> d \o "T12:00:00.000Z"]] : d \in Dates}
    \cup {[cveMetadata |-> [state |-> "RESERVED"]]}

\* what urlopen may do: answer with a document, raise HTTPError (a status
\* that is not a success), or raise URLError (no connection)
HTTPErrors ==
    {[type |-> "HTTPError", code |-> 404,
      msg |-> "HTTP Error 404: Not Found"],
     [type |-> "HTTPError", code |-> 500,
      msg |-> "HTTP Error 500: Internal Server Error"]}

Responses ==
    [type : {"ok"}, body : {<<d>> : d \in Documents}]
    \cup HTTPErrors
    \cup {[type |-> "URLError", msg |-> "no route to host"]}

\* a Python str object
PyStr(s) == [type |-> "str", value |-> s]

\* a == b for objects whose classes define no __eq__ for each other
\* (HTTPError against str): equal only if they are the same object
PyEq(a, b) == a.type = b.type /\ a = b

\* the cache directory: for each CVE, whether <cve>.json exists and its
\* content (<<>> is an empty file, <<d>> a file holding document d)
NoFile == [exists |-> FALSE, data |-> <<>>]
EmptyCache == [cve \in Cves |-> NoFile]

\* what the cache directory may hold for a CVE when a run starts: nothing,
\* an empty file (the mark of a CVE without date), or a document kept by an
\* earlier run
CacheFiles ==
    {NoFile, [exists |-> TRUE, data |-> <<>>]}
    \cup {[exists |-> TRUE, data |-> <<d>>] : d \in Documents}

Caches == [Cves -> CacheFiles]

WriteFile(files, cve, data) ==
    [files EXCEPT ![cve] = [exists |-> TRUE, data |-> data]]

\* data = json.loads(json_data) and the extraction of the date
Decode(json_data, files, request) ==
    IF json_data = <<>>
    THEN [raised |-> "JSONDecodeError", date |-> "", files |-> files,
          request |-> request]
    ELSE LET data == json_data[1]
         IN  [raised |-> None,
              date |-> IF /\ "cveMetadata" \in DOMAIN data
                          /\ "datePublished" \in DOMAIN data.cveMetadata
                       THEN StripTime(data.cveMetadata.datePublished)
                       ELSE "",
              files |-> files, request |-> request]

\* directory: get_caching_directory returned a directory (caching_file is
\* set); response: what the web service does if it is asked.
\* The result: the exception raised (None if it returns), the date
\* returned, the files afterwards, and whether a request was made.
get_cve_publication_date(cve, directory, response, files) ==
    IF directory /\ files[cve].exists
    THEN Decode(files[cve].data, files, FALSE)
    ELSE IF response.type = "URLError"
    THEN [raised |-> "URLError", date |-> "", files |-> files,
          request |-> TRUE]
    ELSE IF response.type = "HTTPError"
    THEN [raised |-> None, date |-> "",
          files |-> IF /\ PyEq(response, PyStr("HTTP Error 404: Not Found"))
                       /\ directory
                    THEN WriteFile(files, cve, <<>>)
                    ELSE files,
          request |-> TRUE]
    ELSE Decode(response.body,
                IF directory THEN WriteFile(files, cve, response.body)
                ELSE files,
                TRUE)

----------------------------------------------------------------------------
(* The skeleton entry                                                      *)

Placeholder == <<"INSERT_VULNERABLE_VERSION_HERE">>

\* variant: the first fixed version is used whenever there is one
VersionRange_First(fixed_in, port_version) ==
    IF Len(fixed_in) = 0 THEN [tag |-> "le", version |-> port_version]
    ELSE [tag |-> "lt", version |-> fixed_in[1]]

\* the <range> element
VersionRange(fixed_in, port_version) ==
    IF Len(fixed_in) = 0 THEN [tag |-> "le", version |-> port_version]
    ELSE IF Len(fixed_in) = 1 THEN [tag |-> "lt", version |-> fixed_in[1]]
    ELSE [tag |-> "lt", version |-> Placeholder]

NoRange == [tag |-> "", version |-> <<>>]

\* the skeleton printed so far: its <range>, its <cvename> lines, the dates
\* the lookups returned for them, its <discovery> line
NoSkeleton ==
    [emitted |-> FALSE, range |-> NoRange, cvenames |-> <<>>,
     dates |-> <<>>, discovery |-> "", closed |-> FALSE]

\* variant: the gate forgets the advisories without CVE
SkeletonNeeded_OnlyCves(cves, nocve) == Len(cves) > 0

\* the gate of the skeleton: if len(cve_list) > 0 or no_cve
SkeletonNeeded(cves, nocve) == Len(cves) > 0 \/ nocve

\* variant: the loop over the CVEs runs from the end of the list
DateLoopCve_Last(cves, done) == cves[Len(cves) - Len(done)]

\* for cve in cve_list: the CVE of the next iteration, done being the
\* <cvename> lines printed so far
DateLoopCve(cves, done) == cves[Len(done) + 1]

\* the test of the date loop:
\*   not first_publication_date or strptime(publication_date) < strptime(first_publication_date)
\* raises ValueError when strptime is given a string that is not a date
DateStep(first_publication_date, publication_date) ==
    IF first_publication_date = ""
    THEN [raised |-> None, first |-> publication_date]
    ELSE IF ~IsDate(publication_date) \/ ~IsDate(first_publication_date)
    THEN [raised |-> "ValueError", first |-> first_publication_date]
    ELSE IF Earlier(strptime(publication_date),
                    strptime(first_publication_date))
    THEN [raised |-> None, first |-> publication_date]
    ELSE [raised |-> None, first |-> first_publication_date]

----------------------------------------------------------------------------
(* The table of contents: helpers of print_table_of_contents               *)

\* the (package, version) entries vulnerable_ports may hold, in the order
\* of the dictionary; the second has no port
Keys == << <<"ren", "1.0">>, <<"ren", "0.9">>, <<"pg", "2.1">>,
           <<"pg", "2.0">> >>

EntryLists == Sublists(Keys)

\* len(vulnerable_ports): the number of package names
PackageNames(entries) == {entries[k][1] : k \in DOMAIN entries}

\* one pass of the loop body that counts the advisories of an entry:
\* an advisory counts if it is neither ignored nor withdrawn
CountVulnerability(vulnerability, ignored) ==
    IF ~Listed(vulnerability, ignored) /\ vulnerability.withdrawn = None
    THEN 1 ELSE 0

\* variant: the rows are counted, not their vulnerabilities
SumVulnerabilities_Rows(rows) == Len(rows)

\* vulnerabilities_count: the sum over the rows printed
RECURSIVE SumVulnerabilities(_)
SumVulnerabilities(rows) ==
    IF rows = <<>> THEN 0
    ELSE Head(rows).vulnerabilities + SumVulnerabilities(Tail(rows))

NoSummary ==
    [ports |-> 0, vulnerable_ports |-> 0, vulnerable_versions |-> 0,
     vulnerabilities |-> 0]

----------------------------------------------------------------------------
(* State                                                                   *)

VARIABLES
    pc,                     \* position in the function being run
    raised,                 \* the exception that ended the run, if any
    ignored_vulns,          \* ids of ignore.txt
    reported_vulns,         \* ids of reported.txt
    \* print_vulnerabilities
    package,                \* <<package_name, package_version>> of the entry
    port,                   \* the port found for the entry
    vulnerability,          \* the advisory being processed
    disposition,            \* what was decided for it
    cve_list,               \* the working CVE list
    no_cve,
    this_vids,              \* records printed for THIS port, in order
    this_cves,              \* the CVE matched by each of them (CVE path)
    other_cves,             \* CVEs searched for ANOTHER port, in order
    other_vids,             \* records printed for ANOTHER port, in order
    skeleton,               \* the skeleton entry printed so far
    first_publication_date,
    \* get_cve_publication_date
    cache_files,            \* the files of the cache directory
    requests,               \* requests sent to the web service, per CVE
    missed,                 \* CVEs answered 404 while a cache file was set
    last_call,              \* the last call of get_cve_publication_date
    \* print_table_of_contents
    entries,                \* the keys of vulnerable_ports, in order
    position,               \* entries visited so far
    listed,                 \* advisories of the current entry read so far
    vulnerabilities,        \* advisories of the current entry counted
    contents,               \* the rows of the table
    false_positive,
    skipped,                \* entries skipped for want of a port
    counted,                \* advisories counted over all the entries
    summary                 \* the totals printed under the table

runVars == <<ignored_vulns, reported_vulns>>

vulnVars ==
    <<package, port, vulnerability, disposition, cve_list, no_cve, this_vids,
      this_cves, other_cves, other_vids, skeleton, first_publication_date>>

cveVars == <<cache_files, requests, missed, last_call>>

tocVars ==
    <<entries, position, listed, vulnerabilities, contents, false_positive,
      skipped, counted, summary>>

vars == <<pc, raised, runVars, vulnVars, cveVars, tocVars>>

NoCall ==
    [cve |-> None, directory |-> FALSE, status |-> -1, isfile |-> FALSE,
     request |-> FALSE, retry |-> FALSE, date |-> ""]

\* the (package, version) entries print_vulnerabilities is run on; the
\* last one has no port
Entries == {<<"ren", "1.0">>, <<"ren", "0.9">>}

\* the state before any of the functions has run
Start ==
    /\ raised = None
    /\ package = <<"", "">>
    /\ port = NoPort
    /\ vulnerability = NoAdvisory
    /\ disposition = None
    /\ cve_list = <<>>
    /\ no_cve = TRUE
    /\ this_vids = <<>>
    /\ this_cves = <<>>
    /\ other_cves = <<>>
    /\ other_vids = <<>>
    /\ skeleton = NoSkeleton
    /\ first_publication_date = ""
    /\ requests = [cve \in Cves |-> 0]
    /\ missed = {}
    /\ last_call = NoCall
    /\ position = 0
    /\ listed = 0
    /\ vulnerabilities = 0
    /\ contents = <<>>
    /\ false_positive = 0
    /\ skipped = 0
    /\ counted = 0
    /\ summary = NoSummary

----------------------------------------------------------------------------
(* A call of get_cve_publication_date and its effect on the cache          *)

Status(response) ==
    IF response.type = "ok" THEN 200
    ELSE IF response.type = "HTTPError" THEN response.code
    ELSE 0

Call(cve, directory, response, r) ==
    /\ cache_files' = r.files
    /\ requests' = [requests EXCEPT ![cve] = IF r.request THEN @ + 1 ELSE @]
    /\ missed' = IF r.request /\ directory /\ Status(response) = 404
                 THEN missed \cup {cve} ELSE missed
    /\ last_call' = [cve |-> cve, directory |-> directory,
                     status |-> IF r.request THEN Status(response) ELSE -1,
                     isfile |-> directory /\ cache_files[cve].exists,
                     request |-> r.request,
                     retry |-> r.request /\ directory /\ cve \in missed,
                     date |-> r.date]

----------------------------------------------------------------------------
(* print_vulnerabilities, for one entry and one advisory of it             *)

Init ==
    /\ Start
    /\ pc = "entry"
    /\ ignored_vulns \in IdLists
    /\ reported_vulns \in IdLists
    /\ cache_files = EmptyCache
    /\ entries = <<>>

\* the search of the port of the entry; an entry without port is skipped
Entry ==
    /\ pc = "entry"
    /\ \E e \in Entries :
        /\ package' = e
        /\ IF PortFound(e[1], e[2])
           THEN port' = FindPort(e[1], e[2]) /\ pc' = "vulnerability"
           ELSE port' = NoPort /\ pc' = "done"
    /\ UNCHANGED <<vulnerability, disposition, cve_list, no_cve, this_vids,
                   this_cves, other_cves, other_vids, skeleton,
                   first_publication_date>>
    /\ UNCHANGED <<raised, runVars, cveVars, tocVars>>

\* ignored, withdrawn and already reported advisories end here (continue)
Classify ==
    /\ pc = "vulnerability"
    /\ \E v \in Advisories :
        /\ vulnerability' = v
        /\ disposition' = Disposition(v, ignored_vulns, reported_vulns)
        /\ pc' = IF disposition' = "Unreported" THEN "gather" ELSE "done"
    /\ UNCHANGED <<package, port, cve_list, no_cve, this_vids, this_cves,
                   other_cves, other_vids, skeleton, first_publication_date>>
    /\ UNCHANGED <<raised, runVars, cveVars, tocVars>>

Gather ==
    /\ pc = "gather"
    /\ cve_list' = GatherCves(vulnerability).cve_list
    /\ no_cve' = GatherCves(vulnerability).no_cve
    /\ pc' = "resolve"
    /\ UNCHANGED <<package, port, vulnerability, disposition, this_vids,
                   this_cves, other_cves, other_vids, skeleton,
                   first_publication_date>>
    /\ UNCHANGED <<raised, runVars, cveVars, tocVars>>

\* the searches for THIS port and then for ANOTHER port; the database and
\* the results of the searches by package are inputs
Resolve ==
    /\ pc = "resolve"
    /\ \E vuxml_data \in Databases :
        IF no_cve
        THEN /\ this_vids' = ThisPortByUrl(vuxml_data, vulnerability.link)
             /\ this_cves' = <<>>
             /\ cve_list' = cve_list
             /\ other_cves' = cve_list
             /\ other_vids' = OtherPort(vuxml_data, cve_list, <<>>)
        ELSE \E exact \in PackageResults, any \in PackageResults :
                LET st == ThisPortByCve(vuxml_data, exact, any, cve_list)
                IN  /\ this_vids' = st.vids
                    /\ this_cves' = st.cves
                    /\ cve_list' = st.cve_list
                    /\ other_cves' = st.cve_list
                    /\ other_vids' = OtherPort(vuxml_data, st.cve_list, <<>>)
    /\ pc' = "skeleton"
    /\ UNCHANGED <<package, port, vulnerability, disposition, no_cve,
                   skeleton, first_publication_date>>
    /\ UNCHANGED <<raised, runVars, cveVars, tocVars>>

\* the gate of the skeleton and its first lines, up to <references>
SkeletonOpen ==
    /\ pc = "skeleton"
    /\ IF SkeletonNeeded(cve_list, no_cve)
       THEN /\ skeleton' = [emitted |-> TRUE,
                            range |-> VersionRange(vulnerability.fixed_in,
                                                   port.version),
                            cvenames |-> <<>>, dates |-> <<>>,
                            discovery |-> "", closed |-> FALSE]
            /\ pc' = "dates"
       ELSE /\ skeleton' = skeleton
            /\ pc' = "done"
    /\ UNCHANGED <<package, port, vulnerability, disposition, cve_list,
                   no_cve, this_vids, this_cves, other_cves, other_vids,
                   first_publication_date>>
    /\ UNCHANGED <<raised, runVars, cveVars, tocVars>>

\* one iteration of the loop over cve_list: <cvename>, the date lookup and
\* the comparison with the earliest date so far
DateLookup ==
    /\ pc = "dates"
    /\ Len(skeleton.cvenames) < Len(cve_list)
    /\ LET cve == DateLoopCve(cve_list, skeleton.cvenames)
       IN  \E directory \in BOOLEAN, response \in Responses :
            LET r == get_cve_publication_date(cve, directory, response,
                                              cache_files)
                d == DateStep(first_publication_date, r.date)
            IN  /\ skeleton' = [skeleton EXCEPT
                                  !.cvenames = Append(@, cve),
                                  !.dates = IF r.raised = None
                                            THEN Append(@, r.date) ELSE @]
                /\ Call(cve, directory, response, r)
                /\ IF r.raised # None
                   THEN /\ raised' = r.raised
                        /\ pc' = "aborted"
                        /\ UNCHANGED first_publication_date
                   ELSE IF d.raised # None
                   THEN /\ raised' = d.raised
                        /\ pc' = "aborted"
                        /\ UNCHANGED first_publication_date
                   ELSE /\ first_publication_date' = d.first
                        /\ UNCHANGED <<raised, pc>>
    /\ UNCHANGED <<package, port, vulnerability, disposition, cve_list,
                   no_cve, this_vids, this_cves, other_cves, other_vids>>
    /\ UNCHANGED <<runVars, tocVars>>

\* the end of the skeleton: <url>, <dates>
SkeletonClose ==
    /\ pc = "dates"
    /\ Len(skeleton.cvenames) = Len(cve_list)
    /\ skeleton' = [skeleton EXCEPT
                      !.discovery = IF first_publication_date # ""
                                    THEN first_publication_date
                                    ELSE "INSERT_YEAR-MONTH-DAY",
                      !.closed = TRUE]
    /\ pc' = "done"
    /\ UNCHANGED <<package, port, vulnerability, disposition, cve_list,
                   no_cve, this_vids, this_cves, other_cves, other_vids,
                   first_publication_date>>
    /\ UNCHANGED <<raised, runVars, cveVars, tocVars>>

Next ==
    \/ Entry
    \/ Classify
    \/ Gather
    \/ Resolve
    \/ SkeletonOpen
    \/ DateLookup
    \/ SkeletonClose

Spec == Init /\ [][Next]_vars

----------------------------------------------------------------------------
(* get_cve_publication_date, called again and again (by the skeletons of   *)
(* one run and of later runs, the cache directory being kept)              *)

InitCve ==
    /\ Start
    /\ pc = "cve"
    /\ ignored_vulns = {}
    /\ reported_vulns = {}
    /\ cache_files \in Caches
    /\ entries = <<>>

\* a call that returns
CveReturn ==
    /\ pc = "cve"
    /\ \E cve \in Cves, directory \in BOOLEAN, response \in Responses :
        LET r == get_cve_publication_date(cve, directory, response,
                                          cache_files)
        IN  /\ requests[cve] < MaxRequests
            /\ r.raised = None
            /\ Call(cve, directory, response, r)
            /\ UNCHANGED <<pc, raised>>
    /\ UNCHANGED <<runVars, vulnVars, tocVars>>

\* a call that raises: the exception is caught nowhere and ends the run
CveRaise ==
    /\ pc = "cve"
    /\ \E cve \in Cves, directory \in BOOLEAN, response \in Responses :
        LET r == get_cve_publication_date(cve, directory, response,
                                          cache_files)
        IN  /\ requests[cve] < MaxRequests
            /\ r.raised # None
            /\ Call(cve, directory, response, r)
            /\ raised' = r.raised
            /\ pc' = "aborted"
    /\ UNCHANGED <<runVars, vulnVars, tocVars>>

NextCve ==
    \/ CveReturn
    \/ CveRaise

SpecCve == InitCve /\ [][NextCve]_vars

----------------------------------------------------------------------------
(* print_table_of_contents                                                 *)

InitToc ==
    /\ Start
    /\ pc = "toc"
    /\ ignored_vulns \in IdLists
    /\ reported_vulns = {}
    /\ cache_files = EmptyCache
    /\ entries \in EntryLists

\* the next entry of vulnerable_ports: an entry without port is skipped
\* with a warning
TocEntry ==
    /\ pc = "toc"
    /\ position < Len(entries)
    /\ position' = position + 1
    /\ listed' = 0
    /\ vulnerabilities' = 0
    /\ IF PortFound(entries[position + 1][1], entries[position + 1][2])
       THEN pc' = "toc_vulnerabilities" /\ UNCHANGED skipped
       ELSE pc' = "toc" /\ skipped' = skipped + 1
    /\ UNCHANGED <<entries, contents, false_positive, counted, summary>>
    /\ UNCHANGED <<raised, runVars, vulnVars, cveVars>>

\* one advisory of the entry
TocVulnerability ==
    /\ pc = "toc_vulnerabilities"
    /\ listed < MaxVulns
    /\ listed' = listed + 1
    /\ \E v \in Advisories :
        /\ vulnerabilities' = vulnerabilities
                              + CountVulnerability(v, ignored_vulns)
        /\ counted' = counted + CountVulnerability(v, ignored_vulns)
    /\ UNCHANGED <<entries, position, contents, false_positive, skipped,
                   summary>>
    /\ UNCHANGED <<pc, raised, runVars, vulnVars, cveVars>>

\* the advisories of the entry are exhausted: a false positive or a row
TocRow ==
    /\ pc = "toc_vulnerabilities"
    /\ IF vulnerabilities = 0
       THEN /\ false_positive' = false_positive + 1
            /\ UNCHANGED contents
       ELSE /\ contents' = Append(contents,
                   LET p == FindPort(entries[position][1],
                                     entries[position][2])
                   IN  [package |-> entries[position][1],
                        subdir |-> p.subdir, name |-> p.name,
                        version |-> p.version, maintainer |-> p.maintainer,
                        vulnerabilities |-> vulnerabilities])
            /\ UNCHANGED false_positive
    /\ pc' = "toc"
    /\ UNCHANGED <<entries, position, listed, vulnerabilities, skipped,
                   counted, summary>>
    /\ UNCHANGED <<raised, runVars, vulnVars, cveVars>>

\* the table and the totals under it
TocTotals ==
    /\ pc = "toc"
    /\ position = Len(entries)
    /\ summary' = [ports |-> Len(python_ports),
                   vulnerable_ports |-> Cardinality(PackageNames(entries))
                                        - false_positive,
                   vulnerable_versions |-> Len(contents),
                   vulnerabilities |-> SumVulnerabilities(contents)]
    /\ pc' = "done"
    /\ UNCHANGED <<entries, position, listed, vulnerabilities, contents,
                   false_positive, skipped, counted>>
    /\ UNCHANGED <<raised, runVars, vulnVars, cveVars>>

NextToc ==
    \/ TocEntry
    \/ TocVulnerability
    \/ TocRow
    \/ TocTotals

SpecToc == InitToc /\ [][NextToc]_vars

----------------------------------------------------------------------------
(* Properties of the classification (Spec)                                 *)

\* the id and the aliases of an advisory, as a list and as a set
AllIds(v) == <<v.id>> \o v.aliases
IdSet(v) == {AllIds(v)[k] : k \in DOMAIN AllIds(v)}

Classified == disposition # None

\* nothing of the resolver or of the skeleton has happened
Untouched ==
    /\ pc = "done"
    /\ cve_list = <<>>
    /\ this_vids = <<>> /\ other_vids = <<>> /\ other_cves = <<>>
    /\ ~skeleton.emitted
    /\ requests = [cve \in Cves |-> 0]

\* C1, as stated: a withdrawn advisory is always given the disposition
\* Withdrawn, whatever the ignore and reported lists hold.
C1_WithdrawnAlways ==
    (Classified /\ vulnerability.withdrawn # None)
        => disposition = "Withdrawn"

\* C1, amended: a withdrawn advisory that is not on the ignore list is
\* given the disposition Withdrawn whatever the reported list holds, and a
\* withdrawn advisory that is on the ignore list is Ignored; in both cases
\* it is never Reported, never resolved and gets no skeleton.
C1_WithdrawnUnlessIgnored ==
    (Classified /\ vulnerability.withdrawn # None)
        => /\ disposition = IF IdSet(vulnerability) \cap ignored_vulns # {}
                            THEN "Ignored" ELSE "Withdrawn"
           /\ Untouched

\* a withdrawn advisory that is on the reported list has been classified
C1_Witness ==
    /\ vulnerability.withdrawn # None
    /\ IdSet(vulnerability) \cap reported_vulns # {}
    /\ disposition = "Withdrawn"

\* C6: an advisory whose id or one of whose aliases is on the ignore list
\* is Ignored: it is never reported as already reported, never resolved,
\* never given a skeleton, and the table does not count it.
C6_IgnoredIsFinal ==
    (Classified /\ IdSet(vulnerability) \cap ignored_vulns # {})
        => /\ disposition = "Ignored"
           /\ Untouched
           /\ CountVulnerability(vulnerability, ignored_vulns) = 0

\* an advisory ignored through an alias, withdrawn, and also on the
\* reported list
C6_Witness ==
    /\ disposition = "Ignored"
    /\ vulnerability.id \notin ignored_vulns
    /\ vulnerability.withdrawn # None
    /\ IdSet(vulnerability) \cap reported_vulns # {}

----------------------------------------------------------------------------
(* Properties of the CVE list (Spec)                                       *)

\* C7: right after the gathering, cve_list holds exactly the CVE
\* identifiers among the id and the aliases, each once, in the order of
\* their first occurrence, and no_cve is true iff the list is empty.
C7_CveList ==
    pc = "resolve"
        => LET all == AllIds(vulnerability)
               first(c) == CHOOSE k \in DOMAIN all :
                              all[k] = c /\ \A j \in 1..(k - 1) : all[j] # c
           IN  /\ NoDuplicates(cve_list)
               /\ {cve_list[k] : k \in DOMAIN cve_list}
                    = IdSet(vulnerability) \cap Cves
               /\ \A j, k \in DOMAIN cve_list :
                    j < k => first(cve_list[j]) < first(cve_list[k])
               /\ no_cve <=> (cve_list = <<>>)

\* the id is a CVE and an alias repeats it: the list holds it once
C7_Witness ==
    /\ pc = "resolve"
    /\ cve_list = <<vulnerability.id>>
    /\ \E k \in DOMAIN vulnerability.aliases :
          vulnerability.aliases[k] = vulnerability.id

----------------------------------------------------------------------------
(* Properties of the resolver and of the skeleton (Spec)                   *)

Elements(list) == {list[k] : k \in DOMAIN list}

Resolved == pc \in {"skeleton", "dates", "done", "aborted"}
               /\ disposition = "Unreported"

\* the gate of the skeleton has been passed, one way or the other
Gated == pc \in {"dates", "done", "aborted"} /\ disposition = "Unreported"

\* C4: a CVE matched by a cvename reference of a record returned for this
\* port is removed from the working list: it is not searched for ANOTHER
\* port, is not among the CVEs left that gate the skeleton, and is not a
\* <cvename> of the skeleton.
C4_MatchedCveIsGone ==
    \A c \in Elements(this_cves) :
        /\ c \notin Elements(cve_list)
        /\ c \notin Elements(other_cves)
        /\ c \notin Elements(skeleton.cvenames)

\* one CVE of the advisory was matched for this port and the other one
\* went through the search for ANOTHER port and into a finished skeleton
C4_Witness ==
    /\ this_cves # <<>>
    /\ other_cves # <<>>
    /\ skeleton.closed
    /\ skeleton.cvenames # <<>>

\* C5: for an advisory that reaches the resolver, a skeleton is emitted if
\* and only if the advisory has no CVE or one of its CVEs was not matched
\* for this port; the CVE list after the search for ANOTHER port is the
\* gathered list without the matched CVEs, whatever that search found;
\* when every CVE is matched no skeleton is emitted.
C5_SkeletonGate ==
    Gated
        => LET gathered == GatherCves(vulnerability).cve_list
               left == SelectSeq(gathered,
                                 LAMBDA c : c \notin Elements(this_cves))
           IN  /\ skeleton.emitted
                    <=> (IdSet(vulnerability) \cap Cves = {} \/ left # <<>>)
               /\ cve_list = left
               /\ other_cves = left

\* a record was found for ANOTHER port and the skeleton is emitted all the
\* same
C5_Witness ==
    /\ Gated
    /\ other_vids # <<>>
    /\ skeleton.closed

\* C8: the <range> of the skeleton depends on the length of fixed_in only:
\* none gives <le> with the version part of the versioned name of the port
\* (what follows its last dash, revision included), one gives <lt> with
\* it, several give <lt> with the placeholder.
C8_VersionRange ==
    skeleton.emitted
        => LET fixed_in == vulnerability.fixed_in
               range == skeleton.range
           IN  /\ Len(fixed_in) = 0
                    => /\ range.tag = "le"
                       /\ "-" \notin Elements(range.version)
                       /\ port.vname = port.name \o <<"-">> \o range.version
                       /\ \E k \in DOMAIN python_ports :
                            /\ python_ports[k].vname = port.vname
                            /\ python_ports[k].name = package[1]
                            /\ python_ports[k].version = package[2]
               /\ Len(fixed_in) = 1
                    => range = [tag |-> "lt", version |-> fixed_in[1]]
               /\ Len(fixed_in) > 1
                    => range = [tag |-> "lt", version |-> Placeholder]

\* package ren 1.0, port py39-ren-1.0_1, nothing fixed: <le>1.0_1</le>
C8_Witness ==
    /\ skeleton.emitted
    /\ package = <<"ren", "1.0">>
    /\ vulnerability.fixed_in = <<>>
    /\ skeleton.range = [tag |-> "le", version |-> <<"1", ".", "0", "_", "1">>]

C10_ThisPortOnce ==
    NoDuplicates(this_vids)

----------------------------------------------------------------------------
(* Properties of the discovery date (Spec)                                 *)

ResolvedDates == Elements(skeleton.dates) \ {""}

\* C2, as stated: a lookup that gives no date does not end the run, and
\* the discovery date of a finished skeleton is the earliest of the dates
\* the lookups returned, the placeholder if none returned a date.
C2_EarliestDate ==
    /\ pc # "aborted"
    /\ skeleton.closed
         => skeleton.discovery =
              IF ResolvedDates = {} THEN "INSERT_YEAR-MONTH-DAY"
              ELSE CHOOSE d \in ResolvedDates :
                      \A e \in ResolvedDates :
                         ~Earlier(strptime(e), strptime(d))

\* C11, as stated: the dates of a finished skeleton were looked up for
\* every CVE gathered from the id and the aliases of the advisory, the
\* CVEs matched for this port included.
C11_FullCveSet ==
    skeleton.closed
        => Elements(skeleton.cvenames)
             = Elements(GatherCves(vulnerability).cve_list)

\* C11, amended: the dates of a skeleton are looked up for the CVEs left
\* in the working list, in the order of the list, one lookup for each
\* <cvename> line; a CVE matched for this port is never looked up.
C11_RemainingCveSet ==
    /\ skeleton.cvenames = SubSeq(cve_list, 1, Len(skeleton.cvenames))
    /\ skeleton.closed
         => /\ skeleton.cvenames = cve_list
            /\ Len(skeleton.dates) = Len(cve_list)
    /\ last_call.cve # None => last_call.cve \in Elements(cve_list)
    /\ \A c \in Elements(this_cves) :
          requests[c] = 0 /\ ~cache_files[c].exists

\* a finished skeleton of an advisory with two CVEs, one matched for this
\* port: one lookup, for the other CVE
C11_Witness ==
    /\ skeleton.closed
    /\ Len(GatherCves(vulnerability).cve_list) = 2
    /\ Len(this_cves) = 1
    /\ Len(skeleton.dates) = 1
    /\ last_call.cve = cve_list[1]

----------------------------------------------------------------------------
(* Properties of the date lookup (SpecCve)                                 *)

\* C3, as stated: after a 404 received while a cache file is set, the empty
\* file <cve>.json exists, and no later call for that CVE sends a request.
C3_NotFoundIsCached ==
    /\ (last_call.request /\ last_call.directory /\ last_call.status = 404)
         => cache_files[last_call.cve] = [exists |-> TRUE, data |-> <<>>]
    /\ ~last_call.retry

\* C12, as stated: when the empty file <cve>.json exists, the lookup of
\* that CVE returns the empty date, sends no request and raises nothing,
\* so that the run goes on.
C12_EmptyFileIsNoDate ==
    (/\ last_call.isfile
     /\ cache_files[last_call.cve] = [exists |-> TRUE, data |-> <<>>])
        => /\ raised = None
           /\ pc # "aborted"
           /\ last_call.date = ""
           /\ ~last_call.request

----------------------------------------------------------------------------
(* Properties of the table of contents (SpecToc)                           *)

\* the entries of vulnerable_ports that have no port in python_ports
WithoutPort ==
    {k \in DOMAIN entries :
        ~\E p \in DOMAIN python_ports :
            /\ python_ports[p].name = entries[k][1]
            /\ python_ports[p].version = entries[k][2]}

\* the package names that have a row in the table
RowPackages == {contents[k].package : k \in DOMAIN contents}

\* C13, as stated: the printed number of vulnerable ports is never
\* negative and is the number of package names that have a row.
C13_VulnerablePorts ==
    pc = "done"
        => /\ summary.vulnerable_ports >= 0
           /\ summary.vulnerable_ports = Cardinality(RowPackages)

\* C9, as stated: rows plus false positives is the number of entries, and
\* the total printed is the number of advisories counted in the rows.
C9_Totals ==
    pc = "done"
        => /\ Len(contents) + false_positive = Len(entries)
           /\ summary.vulnerabilities = counted

\* C9, amended: rows plus false positives is the number of entries that
\* have a port (an entry without port is neither); the total printed is
\* the number of advisories counted in the rows, and the number of rows is
\* the printed number of vulnerable ports/version.
C9_TotalsOfEntriesWithPort ==
    pc = "done"
        => /\ Len(contents) + false_positive
                = Len(entries) - Cardinality(WithoutPort)
           /\ summary.vulnerabilities = counted
           /\ summary.vulnerable_versions = Len(contents)

\* a table with a row of two advisories, a false positive and an entry
\* without port
C9_Witness ==
    /\ pc = "done"
    /\ Len(contents) > 0
    /\ contents[1].vulnerabilities = 2
    /\ false_positive > 0
    /\ WithoutPort # {}

====
